---- MODULE Spec2Model ----
(***************************************************************************)
(* Model of the benchmark harness in src/src/lib.rs: Bench::run (warm-up,  *)
(* timed sampling loop, convergence and timeout checks, selection of the   *)
(* fastest sample) and BenchResult::throughput* / Throughput::as_u128.     *)
(*                                                                         *)
(* Time is counted in timer ticks.  The timer (crate `precision`) turns a  *)
(* tick count into seconds and nanoseconds with the frequency fixed when   *)
(* the Bench is built.  The clock is read at the start of the sampling     *)
(* loop, at both ends of every sample and at every timeout check, and any  *)
(* amount of time in GapValues may pass between two reads.                 *)
(*                                                                         *)
(* The statistics are f64 in the code.  They are modelled by exact         *)
(* fractions of tick counts, which decide `rsd < max_rsd` whenever the     *)
(* exact rsd differs from max_rsd (the values of the model are far apart   *)
(* compared with a rounding error).  Where the exact rsd equals max_rsd    *)
(* the f64 result depends on the rounding of ticks / frequency: it is      *)
(* exact when every intermediate value is a dyadic fraction, and otherwise *)
(* it may fall on either side, which the model leaves open.  A NaN is      *)
(* modelled explicitly: every comparison with it is false.                 *)
(***************************************************************************)
EXTENDS Integers, Sequences, FiniteSets

VARIABLES
    frequency, \* Bench.precision: ticks per second of the timer
    options,   \* the Options snapshot taken at entry of run (Rc::new(options.clone()))
    pc,        \* position inside Bench::run
    calls,     \* number of workload invocations f() made so far
    now,       \* the timer's latest reading, in ticks
    start,     \* `start` of run: the reading when the sampling loop began
    i,         \* the loop counter of `for i in 1..=max_samples`
    results,   \* the Vec of samples: elapsed ticks of each, in insertion order
    rsd_err,   \* side of max_rsd on which rounding left the last rsd (-1, 0, 1)
    stop,      \* which exit of the loop was taken
    result,    \* the BenchResult returned by run
    tp,        \* the Throughput value built from a result
    overflow_checks, \* the build panics on integer overflow (debug) or wraps (release)
    rate       \* the value returned by Throughput::as_u128

vars == <<frequency, overflow_checks, options, pc, calls, now, start, i, results,
          rsd_err, stop, result, tp, rate>>

\* ------------------------------------------------------------------ bounds
MaxSamples == 3      \* max_samples ranges over 0..MaxSamples, min_samples over 0..MaxSamples+1
MaxTicks == 2        \* a timed sample lasts 0..MaxTicks ticks
AllocLimit == 1000   \* stands for the largest capacity Vec::with_capacity can allocate

NanosPerSec == 1000000000

Frequencies == {2, 3}
\* ticks that pass between two reads of the clock outside a sample
GapValues == {0, 1}
IterationsValues == {0, 1, 2}
WarmupValues == {0, 1}
MaxRsdValues == {0, 50, 100}
ThroughputIterations == {0, 1, 2, 10}

\* Option<Duration>: a Duration is whole seconds and sub-second nanoseconds.
None == [some |-> FALSE, secs |-> 0, nanos |-> 0]
Some(s, n) == [some |-> TRUE, secs |-> s, nanos |-> n]
MaxDurationValues == {None, Some(0, 0), Some(1, 0), Some(1, 500000000)}

NoResult == [index |-> 0, elapsed |-> 0]
NoThroughput == [unit |-> "unset", volume |-> <<>>]
NoRate == <<>>

\* max_samples is a usize: the small counts, and one beyond what can be allocated.
OptionsValues ==
    [iterations : IterationsValues,
     warmup_iterations : WarmupValues,
     min_samples : 0..(MaxSamples + 1),
     max_samples : (0..MaxSamples) \cup {AllocLimit + 1},
     max_rsd : MaxRsdValues,
     max_duration : MaxDurationValues]

\* ------------------------------------------------------- timer conversions
\* Elapsed::as_secs: whole seconds of a tick count.
as_secs(ticks) == ticks \div frequency

\* Elapsed::as_ns: nanoseconds of a tick count, ticks * 10^9 / frequency
\* rounded down, taken on the whole seconds and on the rest apart to stay
\* within TLC's 32-bit integers.
as_ns(ticks) ==
    (ticks \div frequency) * NanosPerSec
       + ((ticks % frequency) * NanosPerSec) \div frequency

Max(a, b) == IF a >= b THEN a ELSE b

RECURSIVE GCD(_, _)
GCD(a, b) == IF b = 0 THEN a ELSE GCD(b, a % b)

\* ------------------------------------------------------------- statistics
\* r.as_secs_f64() is ticks / frequency.  The exact value of every quantity
\* below is kept as a fraction of tick counts; in exact arithmetic the
\* frequency cancels in the rsd.
RECURSIVE SumOf(_)
SumOf(s) == IF s = <<>> THEN 0 ELSE Head(s) + SumOf(Tail(s))

\* mean = sum / len, as the fraction MeanNum / MeanDen (in ticks).
MeanNum(s) == SumOf(s)
MeanDen(s) == Len(s)

\* sum of (v - mean)^2 over the samples, as the fraction
\* SqDevNum / Len(s)^2:  v - mean = (Len*v - Sum) / Len.
RECURSIVE SqDevFrom(_, _, _)
SqDevFrom(s, n, total) ==
    IF s = <<>> THEN 0
    ELSE (n * Head(s) - total) * (n * Head(s) - total) + SqDevFrom(Tail(s), n, total)

SqDevNum(s) == SqDevFrom(s, Len(s), SumOf(s))

\* The divisor of the variance: results.len() - 1.
VarianceDivisorBiased(s) == Len(s)
VarianceDivisor(s) == Len(s) - 1

\* rsd^2 = (std_dev * 100 / mean)^2
\*       = (SqDevNum / Len^2 / divisor) * 10000 / (Sum / Len)^2
\*       = 10000 * SqDevNum / (divisor * Sum^2)
RsdSqNum(s) == 10000 * SqDevNum(s)
RsdSqDen(s) == VarianceDivisor(s) * SumOf(s) * SumOf(s)

\* rsd is NaN when mean = 0 (then every deviation is 0 too, samples being
\* non-negative: 0.0 * 100.0 / 0.0) and when the divisor is 0 (0.0 / 0.0).
RsdIsNaN(s) == MeanNum(s) = 0 \/ VarianceDivisor(s) = 0

\* f64 arithmetic on small values is exact as long as every value is a dyadic
\* fraction (an integer over a power of two).
RECURSIVE IsPowerOfTwo(_)
IsPowerOfTwo(n) == n = 1 \/ (n > 1 /\ n % 2 = 0 /\ IsPowerOfTwo(n \div 2))

IsSquare(n) == \E r \in 0..n : r * r = n

Dyadic(num, den) == IsPowerOfTwo(den \div GCD(num, den))

\* mean, the variance and std_dev are all computed without rounding: the
\* samples ticks / frequency are dyadic, and so are sum / len, the sum of
\* squares over the divisor, and its square root.
F64Exact(s) ==
    LET vnum == SqDevNum(s)
        vden == Len(s) * Len(s) * VarianceDivisor(s)
        g == GCD(vnum, vden)
    IN  /\ IsPowerOfTwo(frequency)
        /\ Dyadic(MeanNum(s), MeanDen(s))
        /\ Dyadic(vnum, vden)
        /\ IsSquare(vnum \div g)
        /\ IsSquare(vden \div g)

\* The sides of max_rsd on which the computed rsd can lie when the exact rsd
\* equals max_rsd: -1 below, 0 equal, 1 above.  std_dev is a square root and
\* mean is positive, so the computed rsd is never below 0.  Where the exact
\* rsd differs from max_rsd the rounding changes nothing (0).
Roundings(s, max_rsd) ==
    IF RsdIsNaN(s) \/ max_rsd < 0
          \/ RsdSqNum(s) # max_rsd * max_rsd * RsdSqDen(s) THEN {0}
    ELSE IF F64Exact(s) THEN {0}
    ELSE IF max_rsd = 0 THEN {0, 1}
    ELSE {-1, 0, 1}

\* `rsd < options.max_rsd`: false when rsd is NaN; rsd >= 0 otherwise, so the
\* comparison is that of the squares when max_rsd > 0 and false when not.
RsdLessZeroMeanAsZero(s, max_rsd, err) ==
    IF MeanNum(s) = 0 THEN 0 < max_rsd
    ELSE /\ VarianceDivisor(s) # 0
         /\ max_rsd > 0
         /\ \/ RsdSqNum(s) < max_rsd * max_rsd * RsdSqDen(s)
            \/ RsdSqNum(s) = max_rsd * max_rsd * RsdSqDen(s) /\ err < 0
RsdLess(s, max_rsd, err) ==
    IF RsdIsNaN(s) THEN FALSE
    ELSE /\ max_rsd > 0
         /\ \/ RsdSqNum(s) < max_rsd * max_rsd * RsdSqDen(s)
            \/ RsdSqNum(s) = max_rsd * max_rsd * RsdSqDen(s) /\ err < 0

\* `i >= options.min_samples && rsd < options.max_rsd`
ConvergedIgnoringMinSamples(n, s, opts, err) == RsdLess(s, opts.max_rsd, err)
Converged(n, s, opts, err) == n >= opts.min_samples /\ RsdLess(s, opts.max_rsd, err)

\* Duration's ordering: by seconds, then by sub-second nanoseconds.
DurationGreater(a, b) == a.secs > b.secs \/ (a.secs = b.secs /\ a.nanos > b.nanos)
DurationGreaterEq(a, b) == a.secs > b.secs \/ (a.secs = b.secs /\ a.nanos >= b.nanos)

\* `elapsed >= max_duration` with elapsed = Duration::from_secs(whole seconds
\* of the reading t1 since t0); only evaluated when max_duration is Some.
TimedOutStrict(opts, t0, t1) ==
    /\ opts.max_duration.some
    /\ DurationGreater(Some(as_secs(t1 - t0), 0), opts.max_duration)
TimedOut(opts, t0, t1) ==
    /\ opts.max_duration.some
    /\ DurationGreaterEq(Some(as_secs(t1 - t0), 0), opts.max_duration)

\* `let max_samples = std::cmp::max(1, options.max_samples)`
MaxSamplesUnclamped(opts) == opts.max_samples
MaxSamplesOf(opts) == Max(1, opts.max_samples)

\* Vec::with_capacity(max_samples) panics ('capacity overflow') or aborts
\* (allocation failure) when the capacity is beyond what can be allocated.
AllocationFails(capacity) == capacity > AllocLimit

\* `for _ in 0..iterations`: the number of calls of f in one sample.
InvocationsInclusive(opts) == opts.iterations + 1
Invocations(opts) == opts.iterations

\* `if results.len() <= 1 { continue }`
IsFirstSampleNever(s) == Len(s) <= 0
IsFirstSample(s) == Len(s) <= 1

\* results.into_iter().min_by_key(|r| r.as_ns()): a left-to-right scan that
\* keeps the current best unless a later element has a strictly smaller key.
RECURSIVE MinScanLast(_, _, _)
MinScanLast(s, best, k) ==
    IF k > Len(s) THEN best
    ELSE MinScanLast(s, IF as_ns(s[k]) <= as_ns(s[best]) THEN k ELSE best, k + 1)
RECURSIVE MinScan(_, _, _)
MinScan(s, best, k) ==
    IF k > Len(s) THEN best
    ELSE MinScan(s, IF as_ns(s[k]) < as_ns(s[best]) THEN k ELSE best, k + 1)

MinByKeyLast(s) == MinScanLast(s, 1, 2)
MinByKey(s) == MinScan(s, 1, 2)

\* --------------------------------------------------------------- Bench::run
\* Bench::new fixes the timer's frequency; run takes its Options.
Init ==
    /\ frequency \in Frequencies
    /\ overflow_checks \in BOOLEAN
    /\ options \in OptionsValues
    /\ pc = "warmup"
    /\ calls = 0
    /\ now = 0
    /\ start = 0
    /\ i = 0
    /\ results = <<>>
    /\ rsd_err = 0
    /\ stop = "none"
    /\ result = NoResult
    /\ tp = NoThroughput
    /\ rate = NoRate

\* for _ in 0..options.warmup_iterations { black_box(f()); }
\* Each warm-up call costs `cost` ticks of wall clock.
Warmup ==
    /\ pc = "warmup"
    /\ \E cost \in 0..1 :
          now' = now + cost * options.warmup_iterations
    /\ calls' = calls + options.warmup_iterations
    /\ pc' = "start"
    /\ UNCHANGED <<frequency, overflow_checks, options, start, i, results, rsd_err, stop, result, tp, rate>>

\* let mut results = Vec::with_capacity(max_samples); let start = now();
\* The allocation fails before the clock is read.
StartTimer ==
    /\ pc = "start"
    /\ results' = <<>>
    /\ IF AllocationFails(MaxSamplesOf(options))
       THEN /\ pc' = "alloc_failed"
            /\ start' = start
       ELSE /\ pc' = "loop"
            /\ start' = now
    /\ UNCHANGED <<frequency, overflow_checks, options, calls, now, i, rsd_err, stop, result, tp, rate>>

\* One more turn of the loop: `gap` ticks after the latest reading run_once
\* reads the clock, makes Invocations(options) calls of f, reads the clock
\* again `d` ticks later, and the sample of d ticks is pushed.
RunOnce ==
    /\ pc = "loop"
    /\ i < MaxSamplesOf(options)
    /\ \E gap \in GapValues, d \in 0..MaxTicks :
          /\ results' = Append(results, d)
          /\ now' = now + gap + d
    /\ i' = i + 1
    /\ calls' = calls + Invocations(options)
    /\ pc' = "pushed"
    /\ UNCHANGED <<frequency, overflow_checks, options, start, rsd_err, stop, result, tp, rate>>

\* The range 1..=max_samples is exhausted: the loop ends naturally.
LoopExhausted ==
    /\ pc = "loop"
    /\ i >= MaxSamplesOf(options)
    /\ stop' = "exhausted"
    /\ pc' = "select"
    /\ UNCHANGED <<frequency, overflow_checks, options, calls, now, start, i, results, rsd_err, result, tp, rate>>

\* if results.len() <= 1 { continue; }
FirstSample ==
    /\ pc = "pushed"
    /\ IsFirstSample(results)
    /\ pc' = "loop"
    /\ UNCHANGED <<frequency, overflow_checks, options, calls, now, start, i, results, rsd_err, stop, result, tp, rate>>

\* mean, std_dev, rsd; if i >= min_samples && rsd < max_rsd { break; }
ConvergedStop ==
    /\ pc = "pushed"
    /\ ~IsFirstSample(results)
    /\ \E err \in Roundings(results, options.max_rsd) :
          /\ Converged(i, results, options, err)
          /\ rsd_err' = err
    /\ stop' = "converged"
    /\ pc' = "select"
    /\ UNCHANGED <<frequency, overflow_checks, options, calls, now, start, i, results, result, tp, rate>>

NotConverged ==
    /\ pc = "pushed"
    /\ ~IsFirstSample(results)
    /\ \E err \in Roundings(results, options.max_rsd) :
          /\ ~Converged(i, results, options, err)
          /\ rsd_err' = err
    /\ pc' = "timeout"
    /\ UNCHANGED <<frequency, overflow_checks, options, calls, now, start, i, results, stop, result, tp, rate>>

\* if let Some(max_duration) = ... { if elapsed >= max_duration { break; } }
\* The clock is read again, `gap` ticks after the latest reading.
TimeoutStop ==
    /\ pc = "timeout"
    /\ \E gap \in GapValues :
          /\ now' = now + gap
          /\ TimedOut(options, start, now + gap)
    /\ stop' = "timeout"
    /\ pc' = "select"
    /\ UNCHANGED <<frequency, overflow_checks, options, calls, start, i, results, rsd_err, result, tp, rate>>

\* With max_duration None the clock is not read.
NoTimeout ==
    /\ pc = "timeout"
    /\ IF options.max_duration.some
       THEN \E gap \in GapValues :
               /\ now' = now + gap
               /\ ~TimedOut(options, start, now + gap)
       ELSE now' = now
    /\ pc' = "loop"
    /\ UNCHANGED <<frequency, overflow_checks, options, calls, start, i, results, rsd_err, stop, result, tp, rate>>

\* let result = results.into_iter().min_by_key(|r| r.as_ns()).unwrap();
\* unwrap panics on an empty Vec.
SelectMin ==
    /\ pc = "select"
    /\ IF results = <<>>
       THEN /\ pc' = "panic"
            /\ result' = result
       ELSE /\ pc' = "done"
            /\ result' = [index |-> MinByKey(results),
                          elapsed |-> results[MinByKey(results)]]
    /\ UNCHANGED <<frequency, overflow_checks, options, calls, now, start, i, results, rsd_err, stop, tp, rate>>

Next ==
    \/ Warmup
    \/ StartTimer
    \/ RunOnce
    \/ LoopExhausted
    \/ FirstSample
    \/ ConvergedStop
    \/ NotConverged
    \/ TimeoutStop
    \/ NoTimeout
    \/ SelectMin

Spec == Init /\ [][Next]_vars

\* --------------------------------------------------------------- throughput
\* A u128 is kept as its digits in base 256 (its bytes), least significant
\* first and without leading zeros (zero is the empty sequence): the volumes
\* of the code do not fit TLC's 32-bit integers.
Base == 256
LimbBits == 8
U128Bits == 128

\* An f64 has a significand of 53 binary digits.
F64MantissaBits == 53

\* `n as u128` of a small integer.
RECURSIVE Limbs(_)
Limbs(n) == IF n = 0 THEN <<>> ELSE <<n % Base>> \o Limbs(n \div Base)

Zeros(k) == [j \in 1..k |-> 0]
Ones(k) == [j \in 1..k |-> Base - 1]

RECURSIVE Trim(_)
Trim(b) ==
    IF b = <<>> THEN <<>>
    ELSE IF b[Len(b)] # 0 THEN b
    ELSE Trim(SubSeq(b, 1, Len(b) - 1))

\* The number of binary digits of a limb and of a number.
RECURSIVE LimbLen(_)
LimbLen(n) == IF n = 0 THEN 0 ELSE 1 + LimbLen(n \div 2)

BitLen(b) == IF b = <<>> THEN 0 ELSE LimbBits * (Len(b) - 1) + LimbLen(b[Len(b)])

\* The binary digit of weight 2^k.
Bit(b, k) == (b[k \div LimbBits + 1] \div 2^(k % LimbBits)) % 2

\* a + b + carry.
RECURSIVE AddLimbs(_, _, _)
AddLimbs(a, b, carry) ==
    IF a = <<>> /\ b = <<>> THEN Limbs(carry)
    ELSE LET da == IF a = <<>> THEN 0 ELSE Head(a)
             db == IF b = <<>> THEN 0 ELSE Head(b)
             ta == IF a = <<>> THEN <<>> ELSE Tail(a)
             tb == IF b = <<>> THEN <<>> ELSE Tail(b)
         IN  <<(da + db + carry) % Base>> \o AddLimbs(ta, tb, (da + db + carry) \div Base)

\* a * m + carry for one limb m > 0.
RECURSIVE MulLimb(_, _, _)
MulLimb(a, m, carry) ==
    IF a = <<>> THEN Limbs(carry)
    ELSE <<(Head(a) * m + carry) % Base>>
            \o MulLimb(Tail(a), m, (Head(a) * m + carry) \div Base)

\* a * b in unbounded precision: a * (b0 + 256 * b') = a * b0 + 256 * (a * b').
RECURSIVE MulLimbs(_, _)
MulLimbs(a, b) ==
    IF a = <<>> \/ b = <<>> THEN <<>>
    ELSE LET rest == MulLimbs(a, Tail(b))
             shifted == IF rest = <<>> THEN <<>> ELSE <<0>> \o rest
         IN  IF Head(b) = 0 THEN shifted
             ELSE AddLimbs(MulLimb(a, Head(b), 0), shifted, 0)

\* A product that does not fit a u128 overflows: the multiplication panics in
\* a build with overflow checks (debug) and wraps modulo 2^128 without them
\* (release).
Overflows(b) == BitLen(b) > U128Bits
Wrap(b) == IF Overflows(b) THEN Trim(SubSeq(b, 1, U128Bits \div LimbBits)) ELSE b

\* `x as f64` of a u128: the nearest f64, ties to the even significand.  The
\* value is an integer of up to 129 binary digits (u128::MAX rounds to 2^128).
ToF64(b) ==
    IF BitLen(b) <= F64MantissaBits THEN b
    ELSE LET drop == BitLen(b) - F64MantissaBits
             whole == drop \div LimbBits
             part == 2^(drop % LimbBits)
             down == [j \in 1..Len(b) |->
                         IF j <= whole THEN 0
                         ELSE IF j = whole + 1 THEN (b[j] \div part) * part
                         ELSE b[j]]
             half == Bit(b, drop - 1) = 1
             more == \E k \in 0..(drop - 2) : Bit(b, k) = 1
             odd == Bit(b, drop) = 1
         IN  IF half /\ (more \/ odd)
             THEN AddLimbs(down, Zeros(whole) \o <<part>>, 0)
             ELSE down

\* `x as u128` of a non-negative integral f64: saturates at u128::MAX.
ToU128(b) == IF Overflows(b) THEN Ones(U128Bits \div LimbBits) ELSE b

\* (r * 256 + limb) / d and % d for r < d < 2^31, one binary digit of the limb
\* at a time from the top: 2 * r + bit is compared with d without being
\* formed, to stay within TLC's integers.
RECURSIVE DivLimb(_, _, _, _, _)
DivLimb(r, limb, k, d, q) ==
    IF k = 0 THEN [q |-> q, r |-> r]
    ELSE LET bit == (limb \div 2^(k - 1)) % 2
             fits == r >= d - r - bit
         IN  DivLimb(IF fits THEN r - (d - r - bit) ELSE r + r + bit,
                     limb, k - 1, d, 2 * q + (IF fits THEN 1 ELSE 0))

\* b / d and b % d for a divisor 0 < d < 2^31, from the most significant limb:
\* with b = b0 + 256 * b' and b' = q' * d + r', b = 256 * q' * d + (256 * r' + b0).
RECURSIVE DivMod(_, _)
DivMod(b, d) ==
    IF b = <<>> THEN [q |-> <<>>, r |-> 0]
    ELSE LET hi == DivMod(Tail(b), d)
             lo == DivLimb(hi.r, Head(b), LimbBits, d, 0)
         IN  [q |-> IF hi.q = <<>> /\ lo.q = 0 THEN <<>> ELSE <<lo.q>> \o hi.q,
              r |-> lo.r]

\* The multiplier applied to volume * iterations by each constructor.
UnitMultiplier(unit) ==
    CASE unit = "None" -> 1
      [] unit = "Bits" -> 8
      [] unit = "Bytes" -> 8

\* volume *= self.options.iterations as u128, without overflow checks.
TimesIterations(volume, opts) == Wrap(MulLimbs(volume, Limbs(opts.iterations)))

\* One of the multiplications of the constructor overflows; throughput has
\* no second multiplication.
VolumeOverflows(unit, volume, opts) ==
    \/ Overflows(MulLimbs(volume, Limbs(opts.iterations)))
    \/ /\ unit # "None"
       /\ Overflows(MulLimbs(TimesIterations(volume, opts), Limbs(UnitMultiplier(unit))))

\* BenchResult::throughput / throughput_bits / throughput_bytes:
\* volume *= iterations; (volume *= 8;) Throughput { volume: volume as f64, .. }
\* as computed without overflow checks, which is the exact product when
\* nothing overflows.
MakeThroughput(unit, volume, opts) ==
    [unit |-> unit,
     volume |-> ToF64(Wrap(MulLimbs(TimesIterations(volume, opts),
                                   Limbs(UnitMultiplier(unit)))))]

\* `self.volume as u128 * 1_000_000_000` overflows.
RateOverflows(t) == Overflows(MulLimbs(ToU128(t.volume), Limbs(NanosPerSec)))

\* Throughput::as_u128:
\* self.volume as u128 * 1_000_000_000 / (max(1, self.result.as_ns()) as u128)
\* as computed without overflow checks.
as_u128(t, res) ==
    DivMod(Wrap(MulLimbs(ToU128(t.volume), Limbs(NanosPerSec))),
           Max(1, as_ns(res.elapsed))).q

\* A per-iteration volume is a u128: small ones, two beyond the integers an
\* f64 holds exactly (2^53 + 1 and 2^53 + 3), and u128::MAX.
Volumes ==
    {Limbs(0), Limbs(1), Limbs(3), Limbs(100),
     <<1, 0, 0, 0, 0, 0, 32>>,
     <<3, 0, 0, 0, 0, 0, 32>>,
     Ones(U128Bits \div LimbBits)}

\* A result as returned by run, for every iteration count and elapsed time.
InitThroughput ==
    /\ frequency \in Frequencies
    /\ overflow_checks \in BOOLEAN
    /\ options \in [iterations : ThroughputIterations,
                    warmup_iterations : {0},
                    min_samples : {3},
                    max_samples : {5},
                    max_rsd : {50},
                    max_duration : {None}]
    /\ pc = "done"
    /\ calls = 0
    /\ start = 0
    /\ i = 1
    /\ \E d \in 0..(MaxTicks + 1) :
          /\ now = d
          /\ results = <<d>>
          /\ result = [index |-> 1, elapsed |-> d]
    /\ rsd_err = 0
    /\ stop = "exhausted"
    /\ tp = NoThroughput
    /\ rate = NoRate

\* BenchResult::throughput: panics on an overflow in a build with overflow
\* checks, and returns the Throughput otherwise.
Throughput ==
    /\ pc = "done"
    /\ \E v \in Volumes :
          IF overflow_checks /\ VolumeOverflows("None", v, options)
          THEN /\ pc' = "overflow"
               /\ tp' = tp
          ELSE /\ pc' = "built"
               /\ tp' = MakeThroughput("None", v, options)
    /\ UNCHANGED <<frequency, overflow_checks, options, calls, now, start, i,
                   results, rsd_err, stop, result, rate>>

\* BenchResult::throughput_bits: panics on an overflow in a build with overflow
\* checks, and returns the Throughput otherwise.
ThroughputBits ==
    /\ pc = "done"
    /\ \E v \in Volumes :
          IF overflow_checks /\ VolumeOverflows("Bits", v, options)
          THEN /\ pc' = "overflow"
               /\ tp' = tp
          ELSE /\ pc' = "built"
               /\ tp' = MakeThroughput("Bits", v, options)
    /\ UNCHANGED <<frequency, overflow_checks, options, calls, now, start, i,
                   results, rsd_err, stop, result, rate>>

\* BenchResult::throughput_bytes: panics on an overflow in a build with overflow
\* checks, and returns the Throughput otherwise.
ThroughputBytes ==
    /\ pc = "done"
    /\ \E v \in Volumes :
          IF overflow_checks /\ VolumeOverflows("Bytes", v, options)
          THEN /\ pc' = "overflow"
               /\ tp' = tp
          ELSE /\ pc' = "built"
               /\ tp' = MakeThroughput("Bytes", v, options)
    /\ UNCHANGED <<frequency, overflow_checks, options, calls, now, start, i,
                   results, rsd_err, stop, result, rate>>

\* as_u128 is called on the Throughput.
AsU128 ==
    /\ pc = "built"
    /\ IF overflow_checks /\ RateOverflows(tp)
       THEN /\ pc' = "overflow"
            /\ rate' = rate
       ELSE /\ pc' = "rated"
            /\ rate' = as_u128(tp, result)
    /\ UNCHANGED <<frequency, overflow_checks, options, calls, now, start, i,
                   results, rsd_err, stop, result, tp>>

NextThroughput ==
    \/ Throughput
    \/ ThroughputBits
    \/ ThroughputBytes
    \/ AsU128

SpecThroughput == InitThroughput /\ [][NextThroughput]_vars

\* ------------------------------------------------------------------ claims
Min(a, b) == IF a <= b THEN a ELSE b

RECURSIVE SumSq(_)
SumSq(s) == IF s = <<>> THEN 0 ELSE Head(s) * Head(s) + SumSq(Tail(s))

\* The loop has ended (by any exit) and the samples are final.
Ended == pc \in {"select", "done"}

\* The warm-up is over and the start timestamp has been taken.
Sampling == pc \in {"loop", "pushed", "timeout", "select", "done"}

\* The exact rsd against max_rsd by the closed form of the unbiased sample
\* variance,
\*   var = (n*Q - S^2) / (n*(n-1)),  mean = S/n,  rsd^2 = 10^4 * var / mean^2,
\* with S the sum and Q the sum of squares of the n samples; an undefined rsd
\* (S = 0) is below nothing.
RsdBelow(s, max_rsd) ==
    LET n == Len(s)
        S == SumOf(s)
        Q == SumSq(s)
    IN  /\ S # 0
        /\ max_rsd > 0
        /\ 10000 * n * (n * Q - S * S) < max_rsd * max_rsd * (n - 1) * S * S

RsdEquals(s, max_rsd) ==
    LET n == Len(s)
        S == SumOf(s)
        Q == SumSq(s)
    IN  /\ S # 0
        /\ max_rsd >= 0
        /\ 10000 * n * (n * Q - S * S) = max_rsd * max_rsd * (n - 1) * S * S

\* Convergence on the exact rsd.
ShouldConvergeExactly(s, opts) == Len(s) >= opts.min_samples /\ RsdBelow(s, opts.max_rsd)

\* Convergence on the rsd as computed: below max_rsd exactly, or equal to it
\* exactly and rounded below it.
ShouldConverge(s, opts, err) ==
    /\ Len(s) >= opts.min_samples
    /\ RsdBelow(s, opts.max_rsd) \/ (RsdEquals(s, opts.max_rsd) /\ err < 0)

\* Whole seconds of the latest clock reading since `start` are at or over
\* max_duration.
BudgetSpent ==
    /\ options.max_duration.some
    /\ (now - start) \div frequency >=
          options.max_duration.secs + (IF options.max_duration.nanos > 0 THEN 1 ELSE 0)

\* C1: the number of samples is at most max(1, max_samples) at all times; when
\* the loop has ended it is at least min(min_samples, max_samples) unless the
\* timeout stopped it (and then the budget was indeed spent), and a
\* convergence stop has at least min_samples samples.
C1_SampleCountBounds ==
    /\ Len(results) <= Max(1, options.max_samples)
    /\ Ended =>
         /\ stop # "timeout" =>
               Len(results) >= Min(options.min_samples, options.max_samples)
         /\ stop = "timeout" => BudgetSpent
         /\ stop = "converged" => Len(results) >= options.min_samples

C1_Witness ==
    /\ pc = "done"
    /\ stop = "converged"
    /\ Len(results) = options.min_samples
    /\ Len(results) < options.max_samples

\* C2 as stated: once a sample has been appended and the budget is spent at
\* the latest clock reading, no further sample is taken, whatever the number
\* of samples; so with max_duration = 0 and min_samples >= 2 the run ends with
\* fewer than min_samples samples; and a run stopped by the timeout returns a
\* result.
C2_TimeoutAfterAnySample ==
    /\ (pc = "loop" /\ Len(results) >= 1 /\ BudgetSpent)
          => i >= Max(1, options.max_samples)
    /\ (pc = "done" /\ options.max_duration = Some(0, 0) /\ options.min_samples >= 2)
          => Len(results) < options.min_samples
    /\ (pc = "done" /\ stop = "timeout") => result.index \in 1..Len(results)

\* C2 amended: the timeout is looked at from the second sample on only, at
\* the clock reading of the check that follows a failed convergence test:
\* the loop goes on after two or more samples only if the budget was not
\* spent at that reading, and it is stopped by the timeout only if the budget
\* was spent at that reading; a run stopped by the timeout has at least two
\* samples and returns a result; and with max_duration = 0, min_samples >= 3
\* and max_samples >= 2 a run that returns was stopped by the timeout with
\* exactly two samples, fewer than min_samples.
C2_TimeoutAfterSecondSample ==
    /\ (pc = "loop" /\ Len(results) >= 2) => ~BudgetSpent
    /\ (stop = "timeout") => (BudgetSpent /\ Len(results) >= 2)
    /\ (pc = "done" /\ stop = "timeout") => result.index \in 1..Len(results)
    /\ (pc = "done" /\ options.max_duration = Some(0, 0)
          /\ options.min_samples >= 3 /\ options.max_samples >= 2)
          => /\ Len(results) = 2
             /\ stop = "timeout"

C2_Witness ==
    /\ pc = "done"
    /\ stop = "timeout"
    /\ Len(results) >= 2
    /\ Len(results) < options.min_samples
    /\ Len(results) < options.max_samples
    /\ options.max_duration.secs > 0

\* C3 as stated: after the n-th sample, n >= 2, the loop stops as converged
\* exactly when n >= min_samples and the rsd of the samples (n-1 divisor) is
\* below max_rsd; a sequence whose rsd equals max_rsd does not converge.
C3_ConvergedOnExactRsd ==
    /\ pc = "timeout" => ~ShouldConvergeExactly(results, options)
    /\ stop = "converged" => ShouldConvergeExactly(results, options)
    /\ stop = "converged" => ~RsdEquals(results, options.max_rsd)

\* C3 amended: the loop stops as converged exactly when n >= min_samples and
\* the rsd computed in f64 (n-1 divisor) is below max_rsd.  The comparison is
\* strict on the computed value: with max_rsd = 0 the loop never converges, and
\* a sequence whose exact rsd equals max_rsd converges only when rounding has
\* left the computed rsd below max_rsd.
C3_ConvergedOnComputedRsd ==
    /\ pc = "timeout" => ~ShouldConverge(results, options, rsd_err)
    /\ stop = "converged" => ShouldConverge(results, options, rsd_err)
    /\ stop = "converged" => options.max_rsd > 0
    /\ (stop = "converged" /\ RsdEquals(results, options.max_rsd))
          => rsd_err < 0

C3_Witness ==
    /\ pc = "timeout"
    /\ Len(results) >= options.min_samples
    /\ options.max_rsd > 0
    /\ RsdEquals(results, options.max_rsd)
    /\ rsd_err = 0
    /\ frequency = 2

\* C4: the result returned is the sample of smallest as_ns over the whole
\* sequence, and the earliest of those.
C4_ResultIsFirstMinimum ==
    pc = "done" =>
      /\ result.index \in 1..Len(results)
      /\ result.elapsed = results[result.index]
      /\ \A j \in 1..Len(results) :
            /\ as_ns(results[j]) >= as_ns(result.elapsed)
            /\ j < result.index => as_ns(results[j]) > as_ns(result.elapsed)

C4_Witness ==
    /\ pc = "done"
    /\ Len(results) >= 3
    /\ result.index = 2
    /\ results[1] > results[2]
    /\ results[3] = results[2]

\* C5: run always returns a result: it never panics, the minimum is selected
\* from a non-empty sequence, and with max_samples = 0 exactly one sample is
\* taken and no stopping predicate is evaluated.
C5_AlwaysReturns ==
    /\ pc \notin {"panic", "alloc_failed"}
    /\ pc = "select" => Len(results) >= 1
    /\ pc = "done" => result.index \in 1..Len(results)
    /\ options.max_samples = 0 =>
         /\ Len(results) <= 1
         /\ pc # "timeout"
         /\ stop \notin {"converged", "timeout"}
         /\ Ended => Len(results) = 1

\* C6: throughput_bytes(v) has volume v * iterations (multiplier 1), rate
\* volume * 10^9 / max(1, elapsed_ns), the same rate as throughput(v), and
\* 1000 for v = 100, iterations = 10 and one second.
C6_ThroughputBytes ==
    \A v \in Volumes :
       (pc = "rated" /\ tp = MakeThroughput("Bytes", v, options)) =>
          /\ tp.volume = ToF64(MulLimbs(v, Limbs(options.iterations)))
          /\ rate = DivMod(MulLimbs(MulLimbs(v, Limbs(options.iterations)), Limbs(NanosPerSec)),
                           Max(1, as_ns(result.elapsed))).q
          /\ rate = as_u128(MakeThroughput("None", v, options), result)
          /\ (v = Limbs(100) /\ options.iterations = 10 /\ as_ns(result.elapsed) = NanosPerSec)
                => rate = Limbs(1000)

\* C7: every timed sample invokes the workload at least once, and exactly
\* once when iterations = 0.
C7_IterationsAtLeastOne ==
    Sampling =>
      /\ calls >= options.warmup_iterations + Len(results)
      /\ options.iterations = 0 => calls = options.warmup_iterations + Len(results)

\* C8: a sequence of mean zero never stops the loop by convergence, and with
\* max_duration unset such a run collects exactly max(1, max_samples) samples.
C8_ZeroMeanNotConverged ==
    /\ stop = "converged" => SumOf(results) # 0
    /\ (Ended /\ SumOf(results) = 0 /\ ~options.max_duration.some)
          => /\ Len(results) = Max(1, options.max_samples)
             /\ stop = "exhausted"

C8_Witness ==
    /\ pc = "done"
    /\ SumOf(results) = 0
    /\ Len(results) >= 3
    /\ options.min_samples <= 2
    /\ options.max_rsd > 0
    /\ ~options.max_duration.some

\* C9: with iterations >= 1, the workload has been invoked exactly
\* warmup_iterations times when the start timestamp is about to be taken (no
\* sample exists yet), none before the warm-up, and from then on exactly
\* warmup_iterations + iterations * (number of samples) times.
C9_InvocationCount ==
    options.iterations >= 1 =>
      /\ pc = "warmup" => calls = 0 /\ results = <<>>
      /\ pc = "start" => calls = options.warmup_iterations /\ results = <<>>
      /\ Sampling =>
            calls = options.warmup_iterations + options.iterations * Len(results)

C9_Witness ==
    /\ pc = "done"
    /\ options.iterations >= 2
    /\ options.warmup_iterations >= 1
    /\ Len(results) >= 2
    /\ calls = options.warmup_iterations + options.iterations * Len(results)

\* C10: no stopping predicate is evaluated after the first sample, the timeout
\* stops the loop only when the convergence test has failed, the loop counter
\* equals the number of samples at every check, and with max_samples >= 2 at
\* least two samples are collected.
C10_FirstSampleUnchecked ==
    /\ (pc = "timeout" \/ stop \in {"converged", "timeout"}) => Len(results) >= 2
    /\ pc \in {"pushed", "timeout"} => i = Len(results)
    /\ stop = "timeout" => ~ShouldConverge(results, options, rsd_err)
    /\ (Ended /\ options.max_samples >= 2) => Len(results) >= 2

C10_Witness ==
    /\ pc = "done"
    /\ options.max_duration = Some(0, 0)
    /\ options.min_samples = 1
    /\ options.max_rsd = 0
    /\ stop = "timeout"
    /\ Len(results) = 2
    /\ Len(results) < options.max_samples

====
